---- MODULE Spec2Model ----
(***************************************************************************)
(* Route binding and request dispatch of src/RouteConfig.js.               *)
(*                                                                         *)
(* One controller is scanned at start-up; every annotated method becomes   *)
(* a route with the chain  auth -> SSE headers -> user injection ->        *)
(* upload parsing -> dispatcher.  Requests are served concurrently on one  *)
(* event loop: every action below is one macrotask (one handler run up to  *)
(* its next suspension point, with the microtasks it triggers).            *)
(***************************************************************************)
EXTENDS Integers, Sequences, FiniteSets, TLC

NumReq == 2
API_TIMEOUT == 2
LOGIN_ROUTE == "/oauth/token"

Req == 1..NumReq

(***************************************************************************)
(* Values                                                                  *)
(***************************************************************************)
\* JavaScript undefined, for a status and for a data field
NoStatus == 0
Undefined == "undefined"

\* what a controller method returns: nil is "no result at all"
Result(s, d) == [nil |-> FALSE, status |-> s, data |-> d]
NoResult == [nil |-> TRUE, status |-> NoStatus, data |-> Undefined]
Results == {Result(201, "idX"), Result(201, Undefined), Result(NoStatus, "idX"), NoResult}

\* error values: status (HttpError-like), message, code (multer-like)
Err(s, m, c) == [status |-> s, message |-> m, code |-> c]
NoErr == Err(NoStatus, "", "")
ControllerErrors == {Err(400, "No key provided", ""), Err(NoStatus, "boom", "")}
TimeoutErr == Err(NoStatus, "timeout", "")
NullthrowsErr == Err(NoStatus, "Got unexpected null or undefined", "")
TypeErr == Err(NoStatus, "Cannot read property 'then' of undefined", "")
HeadersSentErr == Err(NoStatus, "Can't set headers after they are sent.", "")
InvalidStatusErr == Err(NoStatus, "Invalid status code", "")
UploadErrors == {Err(NoStatus, "Unexpected field", "LIMIT_UNEXPECTED_FILE"),
                 Err(NoStatus, "Unexpected end of multipart data", "")}

\* response bodies
Body(k, d, e, o) == [kind |-> k, data |-> d, error |-> e, ok |-> o]
NoBody == Body("none", "", "", "absent")
EmptyBody == Body("empty", "", "", "absent")
TextBody(t) == Body("text", t, "", "absent")
JsonData(d) == IF d = Undefined THEN EmptyBody ELSE Body("json", d, "", "absent")
JsonError(m) == Body("json", "", m, "false")

\* the response object: sent = headers are on the wire, status = status line
NewResponse == [sent |-> FALSE, status |-> NoStatus, body |-> NoBody, ended |-> FALSE]

(***************************************************************************)
(* Routing metadata of the scanned controller                              *)
(***************************************************************************)
\* Object.getOwnPropertyNames of the controller's prototype (lines 81-83)
MethodOrder == <<"constructor", "provision", "getEvents", "upload", "helper">>

Meta(fn) ==
    CASE fn = "provision" -> [httpVerb |-> "post", route |-> "/v1/provisioning/:deviceID",
                              anonymous |-> FALSE, serverSentEvents |-> FALSE,
                              allowedUploads |-> "undefined"]
      [] fn = "getEvents" -> [httpVerb |-> "get", route |-> "/v1/devices/:deviceID/events/:prefix",
                              anonymous |-> FALSE, serverSentEvents |-> TRUE,
                              allowedUploads |-> "undefined"]
      [] fn = "upload"    -> [httpVerb |-> "post", route |-> "/v1/binaries",
                              anonymous |-> TRUE, serverSentEvents |-> FALSE,
                              allowedUploads |-> "fields"]
      [] OTHER            -> [httpVerb |-> "", route |-> "",
                              anonymous |-> FALSE, serverSentEvents |-> FALSE,
                              allowedUploads |-> "undefined"]

\* every own property bound, annotated or not
BindingsAll == MethodOrder

\* the scan loop: one entry per own method with an httpVerb, in property order
Bindings == SelectSeq(MethodOrder, LAMBDA fn : Meta(fn).httpVerb # "")

\* the router in registration order: login, the bindings, app.all('*')
Router ==
    <<[verb |-> "post", route |-> LOGIN_ROUTE, handler |-> "login"]>>
    \o [i \in 1..Len(Bindings) |->
          [verb |-> Meta(Bindings[i]).httpVerb, route |-> Meta(Bindings[i]).route,
           handler |-> Bindings[i]]]
    \o <<[verb |-> "all", route |-> "*", handler |-> "notFound"]>>

Verbs == {"get", "post"}
Paths == {Router[i].route : i \in 1..(Len(Router) - 1)} \cup {"/nope"}

Matches(e, rq) == (e.verb = "all" \/ e.verb = rq.verb) /\ (e.route = "*" \/ e.route = rq.path)

\* the handler of the last registered entry that matches
TargetLast(rq) ==
    LET i == CHOOSE k \in 1..Len(Router) :
                 /\ Matches(Router[k], rq)
                 /\ \A j \in (k + 1)..Len(Router) : ~Matches(Router[j], rq)
    IN Router[i].handler

\* the handler of the first registered entry that matches
Target(rq) ==
    LET i == CHOOSE k \in 1..Len(Router) :
                 /\ Matches(Router[k], rq)
                 /\ \A j \in 1..(k - 1) : ~Matches(Router[j], rq)
    IN Router[i].handler

NoRequest == [verb |-> "", path |-> ""]

\* a route pattern as the regular expression /:[\w]*/g scans it: runs of
\* literal text and ":word" parameters, from left to right
Lit(text) == [param |-> FALSE, name |-> text]
Par(word) == [param |-> TRUE, name |-> word]
Pattern(route) ==
    CASE route = "/v1/provisioning/:deviceID" ->
             <<Lit("/v1/provisioning/"), Par("deviceID")>>
      [] route = "/v1/devices/:deviceID/events/:prefix" ->
             <<Lit("/v1/devices/"), Par("deviceID"), Lit("/events/"), Par("prefix")>>
      [] OTHER -> <<Lit(route)>>

\* the names taken from the end of the pattern to its start
argumentNamesReversed(route) ==
    LET m == SelectSeq(Pattern(route), LAMBDA t : t.param)
    IN [i \in 1..Len(m) |-> m[Len(m) + 1 - i].name]

\* lines 103-105: the matches of the pattern, each without its colon
argumentNames(route) ==
    LET m == SelectSeq(Pattern(route), LAMBDA t : t.param)
    IN [i \in 1..Len(m) |-> m[i].name]

\* request.params of request r: the part of its path that :name matched
params(r, name) == <<name, r>>

\* request.body after the body parsers: a set of <<field, value>> pairs
Bodies == {{<<"publicKey", "k">>},
           {<<"publicKey", "k">>, <<"access_token", "t">>}}

\* the body passed on as it came
StripNothing(b) == b

\* lines 125-128: const { access_token, ...body } = request.body
Strip(b) == {f \in b : f[1] # "access_token"}

(***************************************************************************)
(* State                                                                   *)
(***************************************************************************)
VARIABLES
    mode,      \* how the container resolves the controller
    pc,        \* position of each request in its chain
    req,       \* verb and path of each request
    oauth,     \* response.locals.oauth token user (0: none)
    user,      \* request.user (0: undefined)
    resp,      \* the response object of each request
    fields,    \* request-scoped fields of each controller object
    inst,      \* the receiver object of each request's method call
    method,    \* the method's deferred computation
    outcome,   \* what the method returned or threw
    obs,       \* owners of the fields the method read from its receiver
    timer,     \* the timeout timer of the race
    elapsed,   \* time since the timer was armed
    path,      \* dispatcher path taken: none, success, failure
    caught,    \* the error the catch block received
    overlap,   \* requests whose method was suspended when this one dispatched
    escaped,   \* error the dispatcher's promise rejected with
    nextErr,   \* error passed to next(err)
    stages,    \* the handlers that ran for each request, in order
    attempts,  \* calls that wrote the response head, or tried to after it was written
    call,      \* the arguments the method was called with
    reqBody    \* request.body as the dispatcher read it

vars == <<mode, pc, req, oauth, user, resp, fields, inst, method, outcome, obs,
          timer, elapsed, path, caught, overlap, escaped, nextErr,
          stages, attempts, call, reqBody>>

\* object 0 is the instance resolved at scan time, object r the instance the
\* container creates for request r, object NumReq + r the clone made for it
Objects == 0..(2 * NumReq)
NoFields == [set |-> FALSE, request |-> 0, response |-> 0, user |-> 0]
NoCall == [values |-> <<>>, body |-> {}]
NoOutcome == [kind |-> "none", sync |-> FALSE, value |-> NoResult, error |-> NoErr]

Init ==
    /\ mode \in {"singleton", "transient"}
    /\ pc = [r \in Req |-> "idle"]
    /\ req = [r \in Req |-> NoRequest]
    /\ oauth = [r \in Req |-> 0]
    /\ user = [r \in Req |-> 0]
    /\ resp = [r \in Req |-> NewResponse]
    /\ fields = [o \in Objects |-> NoFields]
    /\ inst = [r \in Req |-> -1]
    /\ method = [r \in Req |-> "none"]
    /\ outcome = [r \in Req |-> NoOutcome]
    /\ obs = [r \in Req |-> {}]
    /\ timer = [r \in Req |-> "none"]
    /\ elapsed = [r \in Req |-> 0]
    /\ path = [r \in Req |-> "none"]
    /\ caught = [r \in Req |-> NoErr]
    /\ overlap = [r \in Req |-> {}]
    /\ escaped = [r \in Req |-> NoErr]
    /\ nextErr = [r \in Req |-> NoErr]
    /\ stages = [r \in Req |-> <<>>]
    /\ attempts = [r \in Req |-> 0]
    /\ call = [r \in Req |-> NoCall]
    /\ reqBody = [r \in Req |-> {}]

(***************************************************************************)
(* The response object of the framework                                    *)
(***************************************************************************)
\* response.status(s).json(b): setting a header after the headers are on the
\* wire throws, and so does writing the head with a status that is no number
json(rp, s, b) ==
    IF rp.sent THEN [threw |-> TRUE, err |-> HeadersSentErr, resp |-> rp]
    ELSE IF s = NoStatus THEN [threw |-> TRUE, err |-> InvalidStatusErr, resp |-> rp]
    ELSE [threw |-> FALSE, err |-> NoErr,
          resp |-> [sent |-> TRUE, status |-> s, body |-> b, ended |-> TRUE]]

StatusText(code) == IF code = 404 THEN "Not Found" ELSE "Status"

\* the status set but nothing sent
sendStatusOnly(rp, code) == [rp EXCEPT !.status = code]

\* response.sendStatus(code): the status with its reason phrase as text body
sendStatus(rp, code) ==
    [sent |-> TRUE, status |-> code, body |-> TextBody(StatusText(code)), ended |-> TRUE]

\* response.writeHead(200, {...'Content-Type': 'text/event-stream'})
writeHead(rp, code) == [rp EXCEPT !.sent = TRUE, !.status = code]

(***************************************************************************)
(* Middleware                                                              *)
(***************************************************************************)
\* the condition read the wrong way round
maybeInverted(condition) == ~condition

\* maybe(middleware, condition): the middleware runs iff the condition is truthy
maybe(condition) == condition

Truthy(uploads) == uploads # "undefined"

\* multer().fields(allowedUploads) rejects undeclared fields, multer().any() none
filesMiddleware(uploads) ==
    IF uploads = "fields" THEN UploadErrors
    ELSE {e \in UploadErrors : e.code = ""}

\* lib/HttpError: keeps a status the error carries, else an internal error
INTERNAL_ERROR == 500
HttpError(e) ==
    [status |-> IF e.status # NoStatus THEN e.status ELSE INTERNAL_ERROR,
     message |-> e.message]

(***************************************************************************)
(* Controller objects                                                      *)
(***************************************************************************)
\* container.constitute(controllerName) during request r
constitute(r) == IF mode = "singleton" THEN 0 ELSE r

\* the shared instance used as the receiver, without the clone
ReceiverShared(r) == constitute(r)

\* a clone made of whatever the container returned
ReceiverCloned(r) == NumReq + r

\* lines 109-118: clone iff the container returned the scan-time instance
Receiver(r) == IF constitute(r) = 0 THEN NumReq + r ELSE constitute(r)

\* Object.create(controllerInstance): the prototype of a clone is the shared
\* instance; an instance of the container has the class prototype only
Proto(o) == IF o > NumReq THEN 0 ELSE -1

\* this.request / this.response / this.user in heap h: the object's own
\* fields, else those of its prototype
ReadIn(h, o) ==
    IF h[o].set THEN h[o]
    ELSE IF Proto(o) = 0 THEN h[0]
    ELSE NoFields

Read(o) == ReadIn(fields, o)

(***************************************************************************)
(* Dispatcher paths                                                        *)
(***************************************************************************)
\* lines 156-162: the catch block; a throw inside it rejects the handler
Catch(rp, e) ==
    LET w == json(rp, HttpError(e).status, JsonError(HttpError(e).message))
    IN [resp |-> w.resp, path |-> "failure", caught |-> e, escaped |-> w.err,
        writes |-> 1]

\* line 154 and lines 150-152 after nullthrows: write status and data
Respond(rp, v) ==
    LET w == json(rp, v.status, JsonData(v.data))
    IN IF w.threw THEN [Catch(rp, w.err) EXCEPT !.writes = IF rp.sent THEN @ + 1 ELSE @]
       ELSE [resp |-> w.resp, path |-> "success", caught |-> NoErr, escaped |-> NoErr,
             writes |-> 1]

\* lines 150-152: nullthrows(result).status / .data
Success(rp, v) == IF v.nil THEN Catch(rp, NullthrowsErr) ELSE Respond(rp, v)

\* what the bound method does when called: return or throw synchronously,
\* return a deferred computation already settled, or a pending one
Behaviours ==
    [kind : {"value"}, sync : BOOLEAN, value : Results, error : {NoErr}]
    \cup [kind : {"error"}, sync : BOOLEAN, value : {NoResult}, error : ControllerErrors]
    \cup {[kind |-> "pending", sync |-> FALSE, value |-> NoResult, error |-> NoErr]}

Settlements == {b \in Behaviours : b.kind # "pending" /\ ~b.sync}

\* lines 130-162 up to the first suspension: the outcome of the try block
Try(rp, b, sse) ==
    IF b.sync
    THEN IF b.kind = "error" THEN Catch(rp, b.error)
         ELSE IF b.value.nil THEN Catch(rp, TypeErr)
         ELSE Respond(rp, b.value)
    ELSE IF b.kind = "value" THEN Success(rp, b.value)
    ELSE IF b.kind = "error" THEN Catch(rp, b.error)
    ELSE IF sse THEN Success(rp, NoResult)
    ELSE [resp |-> rp, path |-> "none", caught |-> NoErr, escaped |-> NoErr,
          writes |-> 0]

(***************************************************************************)
(* Actions                                                                 *)
(***************************************************************************)
Fn(r) == Target(req[r])

\* lines 98-102: the handlers of a bound route, in the order they are listed
StageOrder == <<"auth", "sse", "inject", "upload", "dispatch">>

After(order, stage) == order[(CHOOSE i \in 1..Len(order) : order[i] = stage) + 1]

\* user injection listed before the SSE headers
NextStageSwapped(stage) == After(<<"auth", "inject", "sse", "upload", "dispatch">>, stage)

\* next(): the router calls the handler listed after the current one
NextStage(stage) == After(StageOrder, stage)

\* the race settles once, whatever settles later
AwaitingAlways(r) == TRUE

\* the dispatcher is suspended at the await of the race (line 138)
Awaiting(r) == pc[r] = "await"

\* a request enters the router; requests are numbered in order of arrival
Arrive(r) ==
    /\ pc[r] = "idle"
    /\ \A q \in Req : q < r => pc[q] # "idle"
    /\ \E v \in Verbs, p \in Paths :
          LET rq == [verb |-> v, path |-> p]
          IN /\ req' = [req EXCEPT ![r] = rq]
             /\ pc' = [pc EXCEPT ![r] =
                          IF Target(rq) = "login" THEN "login"
                          ELSE IF Target(rq) = "notFound" THEN "notFound"
                          ELSE StageOrder[1]]
    /\ UNCHANGED <<mode, oauth, user, resp, fields, inst, method, outcome, obs,
                   timer, elapsed, path, caught, overlap, escaped, nextErr,
                   stages, attempts, call, reqBody>>

\* line 77: oauth.token() answers the login route itself
Login(r) ==
    /\ pc[r] = "login"
    /\ \E granted \in BOOLEAN :
          resp' = [resp EXCEPT ![r] =
                      IF granted
                      THEN json(@, 200, JsonData("access_token")).resp
                      ELSE json(@, 400, Body("json", "", "invalid_grant", "absent")).resp]
    /\ pc' = [pc EXCEPT ![r] = "done"]
    /\ stages' = [stages EXCEPT ![r] = Append(@, "login")]
    /\ attempts' = [attempts EXCEPT ![r] = @ + 1]
    /\ UNCHANGED <<mode, req, oauth, user, fields, inst, method, outcome, obs,
                   timer, elapsed, path, caught, overlap, escaped, nextErr,
                   call, reqBody>>

\* line 98: maybe(oauth.authenticate(), !anonymous); a valid bearer token
\* stores the token in response.locals.oauth and calls next(), an invalid or
\* missing one is answered by the auth capability and the chain stops
AuthStage(r) ==
    /\ pc[r] = "auth"
    /\ IF maybe(~Meta(Fn(r)).anonymous)
       THEN \E valid \in BOOLEAN :
               IF valid
               THEN /\ oauth' = [oauth EXCEPT ![r] = r]
                    /\ pc' = [pc EXCEPT ![r] = NextStage("auth")]
                    /\ UNCHANGED <<resp, attempts>>
               ELSE /\ resp' = [resp EXCEPT ![r] =
                           json(@, 401, Body("json", "", "invalid_token", "absent")).resp]
                    /\ attempts' = [attempts EXCEPT ![r] = @ + 1]
                    /\ pc' = [pc EXCEPT ![r] = "done"]
                    /\ oauth' = oauth
       ELSE /\ pc' = [pc EXCEPT ![r] = NextStage("auth")]
            /\ UNCHANGED <<oauth, resp, attempts>>
    /\ stages' = [stages EXCEPT ![r] = Append(@, "auth")]
    /\ UNCHANGED <<mode, req, user, fields, inst, method, outcome, obs,
                   timer, elapsed, path, caught, overlap, escaped, nextErr,
                   call, reqBody>>

\* lines 43-56, 99: maybe(serverSentEventsMiddleware(), serverSentEvents)
SseStage(r) ==
    /\ pc[r] = "sse"
    /\ resp' = [resp EXCEPT ![r] =
                   IF maybe(Meta(Fn(r)).serverSentEvents) THEN writeHead(@, 200) ELSE @]
    /\ attempts' = [attempts EXCEPT ![r] =
                       IF maybe(Meta(Fn(r)).serverSentEvents) THEN @ + 1 ELSE @]
    /\ pc' = [pc EXCEPT ![r] = NextStage("sse")]
    /\ stages' = [stages EXCEPT ![r] = Append(@, "sse")]
    /\ UNCHANGED <<mode, req, oauth, user, fields, inst, method, outcome, obs,
                   timer, elapsed, path, caught, overlap, escaped, nextErr,
                   call, reqBody>>

\* the user of the token never copied to the request
injectUserNever(oauthInfo, current) == current

\* lines 30-35: request.user = token.user when response.locals.oauth is set
injectUser(oauthInfo, current) == IF oauthInfo # 0 THEN oauthInfo ELSE current

\* lines 28-37, 100: injectUserMiddleware
InjectUser(r) ==
    /\ pc[r] = "inject"
    /\ user' = [user EXCEPT ![r] = injectUser(oauth[r], @)]
    /\ pc' = [pc EXCEPT ![r] = NextStage("inject")]
    /\ stages' = [stages EXCEPT ![r] = Append(@, "inject")]
    /\ UNCHANGED <<mode, req, oauth, resp, fields, inst, method, outcome, obs,
                   timer, elapsed, path, caught, overlap, escaped, nextErr,
                   attempts, call, reqBody>>

\* lines 70-75, 101: maybe(filesMiddleware(allowedUploads), allowedUploads);
\* the parser calls next() or next(err)
UploadStage(r) ==
    /\ pc[r] = "upload"
    /\ IF maybe(Truthy(Meta(Fn(r)).allowedUploads))
       THEN \/ /\ pc' = [pc EXCEPT ![r] = NextStage("upload")]
               /\ nextErr' = nextErr
            \/ \E e \in filesMiddleware(Meta(Fn(r)).allowedUploads) :
                  /\ nextErr' = [nextErr EXCEPT ![r] = e]
                  /\ pc' = [pc EXCEPT ![r] = "error"]
       ELSE /\ pc' = [pc EXCEPT ![r] = NextStage("upload")]
            /\ nextErr' = nextErr
    /\ stages' = [stages EXCEPT ![r] = Append(@, "upload")]
    /\ UNCHANGED <<mode, req, oauth, user, resp, fields, inst, method, outcome, obs,
                   timer, elapsed, path, caught, overlap, escaped,
                   attempts, call, reqBody>>

\* lines 102-163: the dispatcher, from its start to its first suspension
\* (the await of the race) or, when nothing is awaited, to its end
Dispatch(r) ==
    /\ pc[r] = "dispatch"
    /\ \E b \in Behaviours, rb \in Bodies :
          LET o == Receiver(r)
              sse == Meta(Fn(r)).serverSentEvents
              names == argumentNames(Meta(Fn(r)).route)
              values == [i \in 1..Len(names) |-> params(r, names[i])]
              attached == [fields EXCEPT ![o] = [set |-> TRUE, request |-> r,
                                                 response |-> r, user |-> user[r]]]
              t == Try(resp[r], b, sse)
              waits == b.kind = "pending" /\ ~sse
          IN /\ fields' = attached
             /\ inst' = [inst EXCEPT ![r] = o]
             /\ obs' = [obs EXCEPT ![r] = {ReadIn(attached, o)}]
             /\ outcome' = [outcome EXCEPT ![r] = b]
             /\ method' = [method EXCEPT ![r] =
                              IF b.kind = "pending" THEN "running"
                              ELSE IF b.sync THEN "returned" ELSE "settled"]
             /\ timer' = [timer EXCEPT ![r] = IF ~b.sync /\ ~sse THEN "armed" ELSE @]
             /\ resp' = [resp EXCEPT ![r] = t.resp]
             /\ path' = [path EXCEPT ![r] = t.path]
             /\ caught' = [caught EXCEPT ![r] = t.caught]
             /\ escaped' = [escaped EXCEPT ![r] = t.escaped]
             /\ overlap' = [overlap EXCEPT ![r] = {q \in Req : method[q] = "running"}]
             /\ reqBody' = [reqBody EXCEPT ![r] = rb]
             /\ call' = [call EXCEPT ![r] = [values |-> values, body |-> Strip(rb)]]
             /\ attempts' = [attempts EXCEPT ![r] = @ + t.writes]
             /\ pc' = [pc EXCEPT ![r] =
                          IF waits THEN "await"
                          ELSE IF t.escaped # NoErr THEN "rejected" ELSE "done"]
    /\ stages' = [stages EXCEPT ![r] = Append(@, "dispatch")]
    /\ UNCHANGED <<mode, req, oauth, user, elapsed, nextErr>>

\* the method's deferred computation resumes after a suspension point, reads
\* its receiver's fields and settles; a dispatcher still awaiting the race
\* continues with the settlement, otherwise the settlement is dropped
MethodSettle(r) ==
    /\ method[r] = "running"
    /\ \E b \in Settlements :
          LET t == IF b.kind = "value" THEN Success(resp[r], b.value)
                   ELSE Catch(resp[r], b.error)
          IN /\ obs' = [obs EXCEPT ![r] = @ \cup {Read(inst[r])}]
             /\ outcome' = [outcome EXCEPT ![r] = b]
             /\ method' = [method EXCEPT ![r] = "settled"]
             /\ IF Awaiting(r)
                THEN /\ resp' = [resp EXCEPT ![r] = t.resp]
                     /\ path' = [path EXCEPT ![r] = t.path]
                     /\ caught' = [caught EXCEPT ![r] = t.caught]
                     /\ escaped' = [escaped EXCEPT ![r] = t.escaped]
                     /\ attempts' = [attempts EXCEPT ![r] = @ + t.writes]
                     /\ pc' = [pc EXCEPT ![r] =
                                  IF t.escaped # NoErr THEN "rejected" ELSE "done"]
                ELSE UNCHANGED <<resp, path, caught, escaped, attempts, pc>>
    /\ UNCHANGED <<mode, req, oauth, user, fields, inst, timer, elapsed, overlap, nextErr,
                   stages, call, reqBody>>

\* a timer started without its delay
TimerDueAtOnce(r) == TRUE

\* lines 143-146: setTimeout(..., settings.API_TIMEOUT)
TimerDue(r) == elapsed[r] >= API_TIMEOUT

\* time passes for every armed timer; a timer fires when its delay is over
Tick ==
    /\ \E r \in Req : timer[r] = "armed"
    /\ \A r \in Req : timer[r] = "armed" => ~TimerDue(r)
    /\ elapsed' = [r \in Req |-> IF timer[r] = "armed" THEN elapsed[r] + 1 ELSE elapsed[r]]
    /\ UNCHANGED <<mode, pc, req, oauth, user, resp, fields, inst, method, outcome,
                   obs, timer, path, caught, overlap, escaped, nextErr,
                   stages, attempts, call, reqBody>>

\* lines 141-147: the timer rejects its promise with Error('timeout'); a
\* dispatcher still awaiting the race goes to its catch block
TimerFire(r) ==
    /\ timer[r] = "armed"
    /\ TimerDue(r)
    /\ timer' = [timer EXCEPT ![r] = "fired"]
    /\ IF Awaiting(r)
       THEN LET t == Catch(resp[r], TimeoutErr)
            IN /\ resp' = [resp EXCEPT ![r] = t.resp]
               /\ path' = [path EXCEPT ![r] = t.path]
               /\ caught' = [caught EXCEPT ![r] = t.caught]
               /\ escaped' = [escaped EXCEPT ![r] = t.escaped]
               /\ attempts' = [attempts EXCEPT ![r] = @ + t.writes]
               /\ pc' = [pc EXCEPT ![r] =
                            IF t.escaped # NoErr THEN "rejected" ELSE "done"]
       ELSE UNCHANGED <<resp, path, caught, escaped, attempts, pc>>
    /\ UNCHANGED <<mode, req, oauth, user, fields, inst, method, outcome, obs,
                   elapsed, overlap, nextErr, stages, call, reqBody>>

\* lines 167-169: app.all('*')
NotFound(r) ==
    /\ pc[r] = "notFound"
    /\ resp' = [resp EXCEPT ![r] = sendStatus(@, 404)]
    /\ attempts' = [attempts EXCEPT ![r] = @ + 1]
    /\ stages' = [stages EXCEPT ![r] = Append(@, "notFound")]
    /\ pc' = [pc EXCEPT ![r] = "done"]
    /\ UNCHANGED <<mode, req, oauth, user, fields, inst, method, outcome, obs,
                   timer, elapsed, path, caught, overlap, escaped, nextErr,
                   call, reqBody>>

\* JSON of an Error object: it has no enumerable property
RawError(e) == "{}"

\* lines 171-184: the error-handling middleware, reached through next(err)
ErrorHandler(r) ==
    /\ pc[r] = "error"
    /\ resp' = [resp EXCEPT ![r] =
                   json(@, 400, JsonError(IF nextErr[r].code # "" THEN nextErr[r].code
                                          ELSE RawError(nextErr[r]))).resp]
    /\ attempts' = [attempts EXCEPT ![r] = @ + 1]
    /\ stages' = [stages EXCEPT ![r] = Append(@, "error")]
    /\ pc' = [pc EXCEPT ![r] = "done"]
    /\ UNCHANGED <<mode, req, oauth, user, fields, inst, method, outcome, obs,
                   timer, elapsed, path, caught, overlap, escaped, nextErr,
                   call, reqBody>>

Next ==
    \/ \E r \in Req : Arrive(r)
    \/ \E r \in Req : Login(r)
    \/ \E r \in Req : AuthStage(r)
    \/ \E r \in Req : SseStage(r)
    \/ \E r \in Req : InjectUser(r)
    \/ \E r \in Req : UploadStage(r)
    \/ \E r \in Req : Dispatch(r)
    \/ \E r \in Req : MethodSettle(r)
    \/ Tick
    \/ \E r \in Req : TimerFire(r)
    \/ \E r \in Req : NotFound(r)
    \/ \E r \in Req : ErrorHandler(r)

Spec == Init /\ [][Next]_vars

(***************************************************************************)
(* Properties                                                              *)
(***************************************************************************)
IsAnonymous(r) == Meta(Fn(r)).anonymous
IsSse(r) == Meta(Fn(r)).serverSentEvents
Invoked(r) == inst[r] # -1
Own(r) == [set |-> TRUE, request |-> r, response |-> r, user |-> user[r]]

\* C1: with singleton resolution, every read of request, response and user
\* that a request's method makes on its receiver, at its call and after its
\* suspension points, returns that request's own values, whatever other
\* requests dispatched in between.
C1_Isolation ==
    mode = "singleton" => \A r \in Req : \A f \in obs[r] : f = Own(r)

\* a method that was suspended while another request dispatched on the same
\* controller, and that has since resumed and read its fields
C1_Witness ==
    /\ mode = "singleton"
    /\ \E r, q \in Req : /\ r # q
                         /\ r \in overlap[q]
                         /\ method[r] = "settled"
                         /\ Cardinality(obs[r]) = 1

\* C2: on a route whose anonymous flag is false the controller method is
\* invoked only for a request whose bearer token the auth stage accepted.
C2_AuthBeforeMethod ==
    \A r \in Req : (Invoked(r) /\ ~IsAnonymous(r)) => oauth[r] = r

\* a request on a protected route, refused by the auth stage, that never
\* reached the method, next to one that passed and was invoked
C2_Witness ==
    \E r, q \in Req :
        /\ pc[r] = "done" /\ ~IsAnonymous(r) /\ resp[r].status = 401 /\ ~Invoked(r)
        /\ Invoked(q) /\ ~IsAnonymous(q) /\ oauth[q] = q

WellFormed(v) == ~v.nil /\ v.status # NoStatus /\ v.data # Undefined
Finished(r) == method[r] \in {"returned", "settled"}
Is2xx(code) == code \in 200..299
Is5xx(code) == code \in 500..599

\* C3: when the bound method returns {status: S, data: D}, synchronously or
\* as a deferred computation resolving before the timer fires, the response
\* has status S and JSON body D.
C3_RoundTrip ==
    \A r \in Req :
        (Finished(r) /\ outcome[r].kind = "value" /\ WellFormed(outcome[r].value)
           /\ caught[r] # TimeoutErr)
        => /\ resp[r].status = outcome[r].value.status
           /\ resp[r].body = JsonData(outcome[r].value.data)

\* C4: when the bound method throws, or its deferred computation rejects,
\* with an error carrying a status and a message M, the response has that
\* status and the body {error: M, ok: false}.
C4_ErrorTranslation ==
    \A r \in Req :
        (Finished(r) /\ outcome[r].kind = "error" /\ outcome[r].error.status # NoStatus)
        => /\ resp[r].status = outcome[r].error.status
           /\ resp[r].body = JsonError(outcome[r].error.message)

\* C5 as stated: a request answered because its timer fired is answered
\* with a non-2xx status and ok: false before the configured duration elapsed.
C5_TimeoutBeforeDeadline ==
    \A r \in Req :
        caught[r] = TimeoutErr
        => /\ resp[r].ended /\ ~Is2xx(resp[r].status) /\ resp[r].body.ok = "false"
           /\ elapsed[r] < API_TIMEOUT

\* C5: on a route that is not SSE a dispatcher waiting for the deferred
\* computation always has its timer armed and is never left waiting past the
\* configured duration; when the timer fires first the request is answered
\* with a non-2xx status and ok: false, once the duration has elapsed and
\* not before.
C5_TimeoutAtDeadline ==
    \A r \in Req :
        /\ pc[r] = "await" => (~IsSse(r) /\ timer[r] = "armed" /\ elapsed[r] <= API_TIMEOUT)
        /\ caught[r] = TimeoutErr
           => /\ resp[r].ended /\ ~Is2xx(resp[r].status) /\ resp[r].body.ok = "false"
              /\ elapsed[r] >= API_TIMEOUT

\* a request answered by the timeout while its computation is still pending
C5_Witness ==
    \E r \in Req : /\ caught[r] = TimeoutErr /\ method[r] = "running"
                   /\ pc[r] = "done" /\ ~IsSse(r) /\ timer[r] = "fired"

\* C6: on an SSE route, while the deferred computation is pending, no timer
\* exists and the dispatcher has taken neither its success path nor its
\* failure path.
C6_SseStaysOpen ==
    \A r \in Req :
        (IsSse(r) /\ method[r] = "running")
        => /\ timer[r] = "none"
           /\ path[r] = "none"
           /\ caught[r] = NoErr

\* C7: every failure inside the dispatcher ends as a response with the
\* normalized status and the body {error: message, ok: false}; the
\* dispatcher's promise is never rejected.
C7_CatchEverything ==
    \A r \in Req :
        /\ pc[r] # "rejected"
        /\ escaped[r] = NoErr
        /\ caught[r] # NoErr
           => /\ resp[r].status = HttpError(caught[r]).status
              /\ resp[r].body = JsonError(HttpError(caught[r]).message)

\* C8: a request whose method returned no result, or a result without
\* status or without data, is answered with a 5xx status, never a 2xx one.
C8_MalformedResult ==
    \A r \in Req :
        (Finished(r) /\ outcome[r].kind = "value" /\ ~WellFormed(outcome[r].value)
           /\ resp[r].ended)
        => Is5xx(resp[r].status)

C10_LastResort ==
    \A r \in Req :
        escaped[r] # NoErr
        => \/ pc[r] = "error" /\ nextErr[r] = escaped[r]
           \/ /\ pc[r] = "done" /\ resp[r].status = 400
              /\ resp[r].body = JsonError(IF escaped[r].code # "" THEN escaped[r].code
                                          ELSE RawError(escaped[r]))

IsPrefix(a, b) == Len(a) <= Len(b) /\ \A i \in 1..Len(a) : a[i] = b[i]
Bound(r) == pc[r] # "idle" /\ Fn(r) \notin {"login", "notFound"}
Ran(r, stage) == \E i \in 1..Len(stages[r]) : stages[r][i] = stage
SseHead == [sent |-> TRUE, status |-> 200, body |-> NoBody, ended |-> FALSE]

\* C11: on a bound route the handlers of one request run in the order auth,
\* SSE headers, user injection, upload parsing, dispatcher, each one only
\* after all those before it; on an SSE route the 200 event-stream head is on
\* the wire, with no body yet, from the end of the SSE stage until the
\* dispatcher starts, so before the method is invoked; a request the auth
\* stage refused never reaches the SSE stage.
C11_StageOrder ==
    \A r \in Req :
        Bound(r) =>
           /\ \/ IsPrefix(stages[r], StageOrder)
              \/ stages[r] = <<"auth", "sse", "inject", "upload", "error">>
           /\ Invoked(r) => stages[r] = StageOrder
           /\ (IsSse(r) /\ pc[r] \in {"inject", "upload", "dispatch"}) => resp[r] = SseHead
           /\ (IsSse(r) /\ ~Ran(r, "sse")) => resp[r].status # 200
           /\ resp[r].status = 401 => (stages[r] = <<"auth">> /\ ~Invoked(r))

\* a request on the SSE route whose method was invoked after all five
\* stages, next to a request on that route refused by the auth stage
C11_Witness ==
    \E r, q \in Req :
        /\ IsSse(r) /\ Invoked(r) /\ stages[r] = StageOrder
        /\ IsSse(q) /\ resp[q].status = 401 /\ pc[q] = "done"

\* C12: on a route that is not SSE, a request whose timer fired before its
\* computation settled is answered exactly once, through the failure path,
\* with the timeout error; the computation is left running, and when it
\* settles afterwards, with a value or with an error, nothing more is
\* written and no error escapes the dispatcher.
C12_BestEffortDeadline ==
    \A r \in Req :
        caught[r] = TimeoutErr
        => /\ ~IsSse(r) /\ timer[r] = "fired"
           /\ method[r] \in {"running", "settled"}
           /\ path[r] = "failure" /\ pc[r] = "done"
           /\ attempts[r] = 1 /\ escaped[r] = NoErr
           /\ resp[r].ended /\ resp[r].body = JsonError(TimeoutErr.message)

\* a request answered by the timeout whose computation rejected afterwards
C12_Witness ==
    \E r \in Req :
        /\ caught[r] = TimeoutErr
        /\ method[r] = "settled" /\ outcome[r].kind = "error"

IsClone(o) == o > NumReq

\* C13: the receiver of a request's method is a new object whose prototype
\* is the scan-time instance exactly when the container returned that
\* instance, and is the instance the container supplied otherwise; no two
\* requests share a receiver, and the request, response and user fields of
\* the scan-time instance are never written, whatever requests are served.
C13_CloneIffSingleton ==
    /\ fields[0] = NoFields
    /\ \A r \in Req :
          Invoked(r) =>
             /\ IsClone(inst[r]) <=> constitute(r) = 0
             /\ IsClone(inst[r]) => Proto(inst[r]) = 0
             /\ ~IsClone(inst[r]) => (inst[r] = constitute(r) /\ Proto(inst[r]) # 0)
             /\ fields[inst[r]].set
             /\ \A q \in Req \ {r} : inst[q] # inst[r]

\* two requests served through clones of the scan-time instance
C13_Witness ==
    /\ mode = "singleton"
    /\ \A r \in Req : Invoked(r) /\ IsClone(inst[r]) /\ Finished(r)

\* C14: the user attached to a request's receiver, and every user its method
\* reads, is the user of the token the auth stage accepted for this very
\* request; on an anonymous route the method is invoked all the same and
\* the user is absent; it is never the user of another request.
C14_UserInjection ==
    \A r \in Req :
        Invoked(r) =>
           /\ ~IsAnonymous(r) => (oauth[r] = r /\ fields[inst[r]].user = oauth[r])
           /\ IsAnonymous(r) => (oauth[r] = 0 /\ fields[inst[r]].user = 0)
           /\ \A f \in obs[r] : f.user = fields[inst[r]].user
           /\ \A q \in Req \ {r} : fields[inst[r]].user # q

\* an authenticated request and an anonymous one, both invoked, the first
\* one's method still suspended when the other dispatched
C14_Witness ==
    \E r, q \in Req :
        /\ Invoked(r) /\ ~IsAnonymous(r) /\ fields[inst[r]].user = r
        /\ Invoked(q) /\ IsAnonymous(q) /\ fields[inst[q]].user = 0
        /\ r \in overlap[q]

ParamsOf(route) == SelectSeq(Pattern(route), LAMBDA t : t.param)

\* C15: the method is called with one value for every named parameter of
\* its route pattern, the i-th value being what the request's path holds for
\* the i-th parameter of the pattern from the left, and with one more
\* argument: the request body without its access_token field and with
\* every other field as it came.
C15_Arguments ==
    \A r \in Req :
        Invoked(r) =>
           LET ps == ParamsOf(req[r].path)
           IN /\ Len(call[r].values) = Len(ps)
              /\ \A i \in 1..Len(ps) : call[r].values[i] = params(r, ps[i].name)
              /\ \A f \in call[r].body : f[1] # "access_token"
              /\ \A f \in reqBody[r] : f[1] # "access_token" => f \in call[r].body
              /\ call[r].body \subseteq reqBody[r]

\* a request on the route with two parameters whose body carried an
\* access_token, invoked with two values and the other field of the body
C15_Witness ==
    \E r \in Req :
        /\ Invoked(r)
        /\ Len(call[r].values) = 2 /\ call[r].values[1] # call[r].values[2]
        /\ \E f \in reqBody[r] : f[1] = "access_token"
        /\ call[r].body # {}

Annotated(fn) == Meta(fn).httpVerb # ""
EntriesOf(fn) == {i \in 1..Len(Router) : Router[i].handler = fn}
OwnMethods == {MethodOrder[k] : k \in 1..Len(MethodOrder)}

\* C16: after the scan the router holds, for every own method of the
\* controller that carries an HTTP verb, exactly one binding, at the verb
\* and route the method declares, and no binding for an own method without
\* one; apart from the login route and the catch-all it holds nothing else,
\* and every method a request invokes is an annotated one.
C16_ScannerSelection ==
    /\ \A fn \in OwnMethods :
          IF Annotated(fn)
          THEN /\ Cardinality(EntriesOf(fn)) = 1
               /\ \A i \in EntriesOf(fn) :
                     Router[i].verb = Meta(fn).httpVerb /\ Router[i].route = Meta(fn).route
          ELSE EntriesOf(fn) = {}
    /\ \A i \in 2..(Len(Router) - 1) : Router[i].handler \in OwnMethods
    /\ \A r \in Req :
          Invoked(r) => (Fn(r) \in OwnMethods /\ Annotated(Fn(r))
                         /\ Fn(r) \notin {"helper", "constructor"})

\* one request served by an annotated method, another one, for a path no
\* binding declares, answered by the catch-all
C16_Witness ==
    \E r, q \in Req :
        /\ Invoked(r) /\ Annotated(Fn(r))
        /\ pc[q] = "done" /\ Fn(q) = "notFound" /\ ~Invoked(q)

\* C17: for every request, at most one call writes the response head or
\* tries to write a response once the head is written: after the SSE stage
\* has written the 200 event-stream head the dispatcher attempts no status
\* and no JSON body.
C17_SingleResponseStart ==
    \A r \in Req : attempts[r] <= 1

\* the response the settlement of request r's computation produced
Settled(r) ==
    IF outcome[r].kind = "value" THEN Success(NewResponse, outcome[r].value).resp
    ELSE Catch(NewResponse, outcome[r].error).resp

\* C18: on a route that is not SSE the timer set for a deferred computation
\* stays set when the computation settles first; when it fires afterwards
\* the request still has its one response, with the status and body the
\* settlement produced, and no error escaped the dispatcher.
C18_LateTimer ==
    \A r \in Req :
        /\ (Invoked(r) /\ ~IsSse(r) /\ method[r] \in {"running", "settled"})
           => timer[r] \in {"armed", "fired"}
        /\ (timer[r] = "fired" /\ caught[r] # TimeoutErr)
           => /\ method[r] = "settled" /\ pc[r] = "done"
              /\ attempts[r] = 1 /\ escaped[r] = NoErr
              /\ resp[r] = Settled(r)

\* a timer that fired after the computation had resolved with a well-formed
\* result and the request had been answered with it
C18_Witness ==
    \E r \in Req :
        /\ timer[r] = "fired" /\ caught[r] = NoErr /\ path[r] = "success"
        /\ resp[r].status = 201

FirstMatch(rq, k) == Matches(Router[k], rq) /\ \A j \in 1..(k - 1) : ~Matches(Router[j], rq)
Terminals(r) == {i \in 1..Len(stages[r]) : stages[r][i] \in {"login", "dispatch", "notFound"}}

\* C19: a request is ended by at most one handler, and nothing runs after
\* it; a request whose dispatcher ran was dispatched by the first registered
\* entry its verb and path match and is never answered by the catch-all as
\* well; the catch-all runs only for requests no earlier entry matches.
C19_SingleTerminal ==
    \A r \in Req :
        /\ Cardinality(Terminals(r)) <= 1
        /\ \A i \in Terminals(r) : i = Len(stages[r])
        /\ Ran(r, "dispatch")
           => /\ Invoked(r) /\ ~Ran(r, "notFound")
              /\ \E k \in 2..(Len(Router) - 1) :
                    /\ FirstMatch(req[r], k)
                    /\ Router[k].handler = Fn(r)
                    /\ Len(call[r].values) = Len(ParamsOf(Router[k].route))
        /\ Ran(r, "notFound")
           => /\ ~Invoked(r)
              /\ \A k \in 1..(Len(Router) - 1) : ~Matches(Router[k], req[r])

\* a dispatched request that the catch-all matches too and that has been
\* answered, next to a request only the catch-all matches
C19_Witness ==
    \E r, q \in Req :
        /\ Ran(r, "dispatch") /\ pc[r] = "done" /\ Matches(Router[Len(Router)], req[r])
        /\ Ran(q, "notFound") /\ pc[q] = "done"
====
